---- MODULE Spec2Model ----
(***************************************************************************)
(* Seat reservation core of the single-file Flask application:            *)
(* the SQLite store (seats, bookings), the booking handler api_book, the   *)
(* cancel handler, the check-in handler scan and the admin seat toggle     *)
(* admin_room.                                                             *)
(*                                                                         *)
(* Time.  A datetime is a natural number of quarter hours since midnight   *)
(* of the one date the model uses, so 0 = 00:00, 1 = 00:15, 2 = 00:30 ...  *)
(* The store keeps a datetime as ISO text (start_dt, end_dt are TEXT       *)
(* columns); the text is modelled as the pair <<hour, minute>>, written by *)
(* isoformat, read back by fromisoformat and compared by SQLite as text.   *)
(*                                                                         *)
(* Results.  A handler's HTTP answer is named after the error taxonomy:    *)
(*   api_book  403 "管理员不能预约座位"            -> AdminCannotBook       *)
(*             400 invalid date/time, boundaries, start>=end -> InvalidWindow *)
(*             409 "你已有未完成的预约"            -> ActiveBookingExists   *)
(*             400 seat not available             -> SeatUnavailable       *)
(*             409 "该位置在所选时间段已被预约"    -> SeatConflict          *)
(*   cancel    abort(403)                         -> NotOwner              *)
(*   scan      400 "无效二维码"                    -> InvalidToken          *)
(*             400 "当前不在预约时间内"            -> OutsideWindow         *)
(*             400 "该预约已签到并正在使用"        -> AlreadyCheckedIn      *)
(***************************************************************************)
EXTENDS Integers, Sequences, FiniteSets, TLC

\* ------------------------------------------------------------------ bounds
\* Last instant of the modelled day, in quarter hours (4 = 01:00).
MaxTime == 4
\* Most rows the bookings table may hold.
MaxBookings == 2

\* ------------------------------------------------------------ static data
\* users table after init_db: student1, student2, admin.
Users == [id : {1, 2}, is_admin : {0}] \cup [id : {3}, is_admin : {1}]

\* The session a login leaves behind for a row of users.
login(u) == [user_id |-> u.id, is_admin |-> (u.is_admin # 0)]

Sessions == {login(u) : u \in Users}

\* Ids of the rows of the seats table (two seats stand for the 29 of init_db).
SeatIds == {1, 2}

\* Seat ids a request may carry: the existing ones and one that matches no row.
RequestSeatIds == SeatIds \cup {3}

\* Notes the admin form may carry.
Notes == {"n"}

Times == 0 .. MaxTime

\* ------------------------------------------------------------- utilities
\* datetime.isoformat(): the text kept in start_dt / end_dt.
isoformat(dt) == <<dt \div 4, (dt % 4) * 15>>

\* datetime.fromisoformat(): the datetime of a stored text.
fromisoformat(s) == s[1] * 4 + (s[2] \div 15)

\* dt.minute
minute(dt) == (dt % 4) * 15

\* SQLite's comparison of two ISO texts, field by field from the left.
TextGreater(a, b) == a[1] > b[1] \/ (a[1] = b[1] /\ a[2] > b[2])

\* An "HH:MM" string of a request is the pair <<hour, minute>>; Malformed is a
\* string that strptime cannot read.
Malformed == <<>>

\* parse_dt raises on a string strptime cannot read.
parse_raises(time_str) == Len(time_str) # 2

parse_dt(time_str) == time_str[1] * 4 + (time_str[2] \div 15)

\* The (start, end) pairs a booking request may carry: every window on the
\* 30-minute grid, and one of each kind the handler refuses (empty, reversed,
\* start off the grid, end off the grid, unreadable).
RequestWindows ==
    {<<isoformat(a), isoformat(b)>> : a \in {t \in Times : t % 2 = 0},
                                      b \in {t \in Times : t % 2 = 0 /\ t > 0}}
    \cup {<<isoformat(1), isoformat(2)>>, <<isoformat(0), isoformat(1)>>,
          <<Malformed, isoformat(2)>>}

\* overlaps as "an end of the second interval lies strictly inside the first".
overlaps_endpoint_inside(start1, end1, start2, end2) ==
    (start1 < start2 /\ start2 < end1) \/ (start1 < end2 /\ end2 < end1)

\* overlaps with the comparisons made strict: touching intervals overlap.
overlaps_touching(start1, end1, start2, end2) == ~(end1 < start2 \/ end2 < start1)

overlaps(start1, end1, start2, end2) == ~(end1 <= start2 \/ end2 <= start1)


\* ------------------------------------------------------------------ state
VARIABLES
    bookings,   \* the bookings table: a sequence of rows, row i has id i
    seats,      \* the seats table: seat id -> [is_open, note]
    now,        \* the wall clock read by datetime.now()
    reqs,       \* the api_book requests in flight, one per serving thread
    call        \* a call of overlaps on its own: its arguments and its result

vars == <<bookings, seats, now, reqs, call>>

\* A row of bookings. created_at is written by the insert and never read.
NewBooking(id, user_id, seat_id, start_dt, end_dt, token) ==
    [id |-> id, user_id |-> user_id, seat_id |-> seat_id,
     start_dt |-> isoformat(start_dt), end_dt |-> isoformat(end_dt),
     token |-> token, status |-> "booked"]

\* uuid4 that returns the same token at every call.
uuid4_constant(bks) == 1

\* uuid.uuid4(): a token no row holds yet. Rows are never deleted, so the
\* number of rows so far, plus one, is fresh.
uuid4(bks) == Len(bks) + 1

\* UpdateStatus with the update limited to rows that are still booked.
UpdateStatus_booked_only(bks, id, status) ==
    [i \in DOMAIN bks |->
        IF bks[i].id = id /\ bks[i].status = "booked"
        THEN [bks[i] EXCEPT !.status = status] ELSE bks[i]]

\* UPDATE bookings SET status=? WHERE id=?
UpdateStatus(bks, id, status) ==
    [i \in DOMAIN bks |-> IF bks[i].id = id THEN [bks[i] EXCEPT !.status = status]
                          ELSE bks[i]]

\* SELECT * FROM bookings WHERE seat_id=? AND status != "cancelled"
SelectSeatBookings(bks, seat_id) ==
    SelectSeq(bks, LAMBDA b : b.seat_id = seat_id /\ b.status # "cancelled")

\* SelectActive without the status condition: cancelled rows count as well.
SelectActive_any_status(bks, user_id, now_text) ==
    SelectSeq(bks, LAMBDA b : b.user_id = user_id /\ TextGreater(b.end_dt, now_text))

\* SELECT * FROM bookings WHERE user_id=? AND status != 'cancelled' AND end_dt > ?
SelectActive(bks, user_id, now_text) ==
    SelectSeq(bks, LAMBDA b : /\ b.user_id = user_id
                              /\ b.status # "cancelled"
                              /\ TextGreater(b.end_dt, now_text))

\* SELECT * FROM bookings WHERE token=?
SelectByToken(bks, token) == SelectSeq(bks, LAMBDA b : b.token = token)

\* if session.get('is_admin')
AdminBlocked(session) == session.is_admin

\* WindowRejected with the grid check on the start only.
WindowRejected_start_only(start, end) ==
    IF parse_raises(start) \/ parse_raises(end) THEN TRUE
    ELSE LET start_dt == parse_dt(start)
             end_dt == parse_dt(end)
         IN  IF minute(start_dt) % 30 # 0 THEN TRUE
             ELSE start_dt >= end_dt

\* The window checks of api_book before it touches the store.
WindowRejected(start, end) ==
    IF parse_raises(start) \/ parse_raises(end) THEN TRUE
    ELSE LET start_dt == parse_dt(start)
             end_dt == parse_dt(end)
         IN  IF minute(start_dt) % 30 # 0 \/ minute(end_dt) % 30 # 0 THEN TRUE
             ELSE start_dt >= end_dt

\* SeatRejected without the test of is_open: only a missing seat is refused.
SeatRejected_missing_only(sts, seat_id) == seat_id \notin DOMAIN sts

\* if not seat or not seat['is_open']
SeatRejected(sts, seat_id) ==
    IF seat_id \notin DOMAIN sts THEN TRUE ELSE sts[seat_id].is_open = 0

\* for b in q: if overlaps(bstart, bend, start_dt, end_dt): return 409
RECURSIVE ConflictScan(_, _, _)
ConflictScan(q, start_dt, end_dt) ==
    IF q = <<>> THEN FALSE
    ELSE LET b == Head(q)
             bstart == fromisoformat(b.start_dt)
             bend == fromisoformat(b.end_dt)
         IN  IF overlaps(bstart, bend, start_dt, end_dt) THEN TRUE
             ELSE ConflictScan(Tail(q), start_dt, end_dt)

\* INSERT INTO bookings (user_id,seat_id,start_dt,end_dt,token); commit
InsertBooking(bks, user_id, seat_id, start_dt, end_dt, token) ==
    Append(bks, NewBooking(Len(bks) + 1, user_id, seat_id, start_dt, end_dt, token))

BookRejected(bks, result) ==
    [result |-> result, bookings |-> bks, booking_id |-> 0, token |-> 0]

\* The handler of POST /api/book, run from its first line to its last.
api_book(bks, sts, session, seat_id, start, end, now_) ==
    IF AdminBlocked(session) THEN BookRejected(bks, "AdminCannotBook")
    ELSE IF WindowRejected(start, end) THEN BookRejected(bks, "InvalidWindow")
    ELSE LET start_dt == parse_dt(start)
             end_dt == parse_dt(end)
             existing == SelectActive(bks, session.user_id, isoformat(now_))
         IN  IF existing # <<>> THEN BookRejected(bks, "ActiveBookingExists")
             ELSE IF SeatRejected(sts, seat_id) THEN BookRejected(bks, "SeatUnavailable")
             ELSE IF ConflictScan(SelectSeatBookings(bks, seat_id), start_dt, end_dt)
                  THEN BookRejected(bks, "SeatConflict")
             ELSE LET token == uuid4(bks)
                  IN  [result |-> "ok",
                       bookings |-> InsertBooking(bks, session.user_id, seat_id,
                                                  start_dt, end_dt, token),
                       booking_id |-> Len(bks) + 1,
                       token |-> token]

\* NotOwner without the comparison of the owner: only a missing row is refused.
NotOwner_missing_only(bks, session, bid) == bid \notin DOMAIN bks

\* if not b or b['user_id'] != session['user_id']
NotOwner(bks, session, bid) ==
    IF bid \notin DOMAIN bks THEN TRUE ELSE bks[bid].user_id # session.user_id

\* cancel as a DELETE of the row instead of an UPDATE of its status.
cancel_delete_row(bks, session, bid) ==
    IF NotOwner(bks, session, bid) THEN [result |-> "NotOwner", bookings |-> bks]
    ELSE [result |-> "ok", bookings |-> SelectSeq(bks, LAMBDA b : b.id # bid)]

\* cancel with the UPDATE run before the ownership check.
cancel_update_first(bks, session, bid) ==
    [result |-> IF NotOwner(bks, session, bid) THEN "NotOwner" ELSE "ok",
     bookings |-> UpdateStatus(bks, bid, "cancelled")]

\* The handler of GET /cancel/<bid>.
cancel(bks, session, bid) ==
    IF NotOwner(bks, session, bid) THEN [result |-> "NotOwner", bookings |-> bks]
    ELSE [result |-> "ok", bookings |-> UpdateStatus(bks, bid, "cancelled")]

\* InWindow with the end excluded, as the booking windows are elsewhere.
InWindow_half_open(start_dt, end_dt, now_) == start_dt <= now_ /\ now_ < end_dt

\* start_dt <= now <= end_dt
InWindow(start_dt, end_dt, now_) == start_dt <= now_ /\ now_ <= end_dt

\* The handler of POST /scan.
scan(bks, token, now_) ==
    LET rows == SelectByToken(bks, token)
    IN  IF rows = <<>> THEN [result |-> "InvalidToken", seat_id |-> 0, bookings |-> bks]
        ELSE LET b == Head(rows)
                 start_dt == fromisoformat(b.start_dt)
                 end_dt == fromisoformat(b.end_dt)
             IN  IF ~InWindow(start_dt, end_dt, now_)
                 THEN [result |-> "OutsideWindow", seat_id |-> 0, bookings |-> bks]
                 ELSE IF b.status = "using"
                 THEN [result |-> "AlreadyCheckedIn", seat_id |-> 0, bookings |-> bks]
                 ELSE [result |-> "ok", seat_id |-> b.seat_id,
                       bookings |-> UpdateStatus(bks, b.id, "using")]

\* room_id of the rows of seats: the two seats stand in Room A (id 1).
SeatRoom == [s \in SeatIds |-> 1]

\* Room ids a request may carry: Room A, Room B (no seat modelled), and none.
RequestRoomIds == {1, 2, 4}

\* OccupyingScan without the break: the last overlapping booking decides.
RECURSIVE OccupyingScan_last_match(_, _, _, _)
OccupyingScan_last_match(q, start_dt, end_dt, now_) ==
    IF q = <<>> THEN [state |-> "available", occupying |-> 0]
    ELSE LET b == Head(q)
             bstart == fromisoformat(b.start_dt)
             bend == fromisoformat(b.end_dt)
             later == OccupyingScan_last_match(Tail(q), start_dt, end_dt, now_)
         IN  IF later.state # "available" THEN later
             ELSE IF overlaps(bstart, bend, start_dt, end_dt)
             THEN IF b.status = "using" \/ (bstart <= now_ /\ now_ < bend)
                  THEN [state |-> "using", occupying |-> b.id]
                  ELSE [state |-> "booked", occupying |-> b.id]
             ELSE later

\* for b in q: the first booking that overlaps the window decides, then break.
RECURSIVE OccupyingScan(_, _, _, _)
OccupyingScan(q, start_dt, end_dt, now_) ==
    IF q = <<>> THEN [state |-> "available", occupying |-> 0]
    ELSE LET b == Head(q)
             bstart == fromisoformat(b.start_dt)
             bend == fromisoformat(b.end_dt)
         IN  IF overlaps(bstart, bend, start_dt, end_dt)
             THEN IF b.status = "using" \/ (bstart <= now_ /\ now_ < bend)
                  THEN [state |-> "using", occupying |-> b.id]
                  ELSE [state |-> "booked", occupying |-> b.id]
             ELSE OccupyingScan(Tail(q), start_dt, end_dt, now_)

\* The body of "for s in seats": the status of one seat for the window.
ClassifySeat(bks, sts, seat_id, start_dt, end_dt, now_) ==
    IF sts[seat_id].is_open = 0 THEN [state |-> "closed", occupying |-> 0]
    ELSE OccupyingScan(SelectSeatBookings(bks, seat_id), start_dt, end_dt, now_)

\* The handler of POST /api/seat_status: the status of every seat of the room.
seat_status(bks, sts, room_id, start, end, now_) ==
    IF parse_raises(start) \/ parse_raises(end)
    THEN [error |-> "invalid date/time", out |-> <<>>]
    ELSE LET start_dt == parse_dt(start)
             end_dt == parse_dt(end)
         IN  IF start_dt >= end_dt
             THEN [error |-> "start must be before end", out |-> <<>>]
             ELSE [error |-> "none",
                   out |-> [s \in {x \in DOMAIN sts : SeatRoom[x] = room_id} |->
                               ClassifySeat(bks, sts, s, start_dt, end_dt, now_)]]

\* UpdateSeat without the WHERE: every row of seats is written.
UpdateSeat_every_row(sts, seat_id, is_open, note) ==
    [s \in DOMAIN sts |-> [is_open |-> is_open, note |-> note]]

\* UPDATE seats SET is_open=?, note=? WHERE id=?
UpdateSeat(sts, seat_id, is_open, note) ==
    [s \in DOMAIN sts |-> IF s = seat_id THEN [is_open |-> is_open, note |-> note]
                          ELSE sts[s]]

\* The handler of POST /admin/room/<room_id>, behind admin_required.
admin_room(sts, session, seat_id, is_open_field, note) ==
    IF ~session.is_admin THEN [result |-> "Forbidden", seats |-> sts]
    ELSE LET is_open == IF is_open_field = "1" THEN 1 ELSE 0
         IN  [result |-> "ok", seats |-> UpdateSeat(sts, seat_id, is_open, note)]

\* ---------------------------------------------------------------- actions
\* The threads of the server that serve requests at the same time.
Threads == {1, 2}

Idle ==
    [pc |-> "idle", user_id |-> 0, seat_id |-> 0, start_dt |-> 0, end_dt |-> 0,
     row |-> 0, result |-> "none"]

Answered(result) == [Idle EXCEPT !.pc = "done", !.result = result]

NoRequests == [p \in Threads |-> Idle]

NoCall ==
    [pc |-> "none", start1 |-> 0, end1 |-> 0, start2 |-> 0, end2 |-> 0, out |-> FALSE]

\* init_db: every seat open (is_open DEFAULT 1) without a note, no bookings.
Init ==
    /\ bookings = <<>>
    /\ seats = [s \in SeatIds |-> [is_open |-> 1, note |-> "NULL"]]
    /\ now = 0
    /\ reqs = NoRequests
    /\ call = NoCall

\* Time passes.
Tick ==
    /\ now < MaxTime
    /\ now' = now + 1
    /\ UNCHANGED <<bookings, seats, reqs, call>>

CreateBooking ==
    \E session \in Sessions, seat_id \in RequestSeatIds,
       w \in RequestWindows :
        LET r == api_book(bookings, seats, session, seat_id, w[1], w[2], now)
        IN  /\ r.result = "ok" => Len(bookings) < MaxBookings
            /\ bookings' = r.bookings
            /\ UNCHANGED <<seats, now, reqs, call>>

CancelBooking ==
    \E session \in Sessions, bid \in 1 .. MaxBookings + 1 :
        LET r == cancel(bookings, session, bid)
        IN  /\ bookings' = r.bookings
            /\ UNCHANGED <<seats, now, reqs, call>>

CheckIn ==
    \E token \in 1 .. MaxBookings + 1 :
        LET r == scan(bookings, token, now)
        IN  /\ bookings' = r.bookings
            /\ UNCHANGED <<seats, now, reqs, call>>

SetSeatState ==
    \E session \in Sessions, seat_id \in RequestSeatIds,
       is_open_field \in {"1", "0"}, note \in Notes :
        LET r == admin_room(seats, session, seat_id, is_open_field, note)
        IN  /\ seats' = r.seats
            /\ UNCHANGED <<bookings, now, reqs, call>>

Next == Tick \/ CreateBooking \/ CancelBooking \/ CheckIn \/ SetSeatState

Spec == Init /\ [][Next]_vars

\* ------------------------------------------------- api_book, statement by statement
\* Each request runs on its own thread with its own connection (get_db keeps
\* the connection in the request's g). The connection is in sqlite3's default
\* mode: a SELECT runs outside any transaction and sees what is committed at
\* that moment; the INSERT opens the transaction that db.commit() ends. So a
\* request reads the store three times and writes it once, and another
\* request's statements may run in between.

\* Lines 296-331: admin check, window checks, datetime.now(), SELECT of the
\* user's bookings that are not over.
BookBegin(p) ==
    /\ reqs[p].pc = "idle"
    /\ \E session \in Sessions, seat_id \in RequestSeatIds, w \in RequestWindows :
        reqs' = [reqs EXCEPT ![p] =
            IF AdminBlocked(session) THEN Answered("AdminCannotBook")
            ELSE IF WindowRejected(w[1], w[2]) THEN Answered("InvalidWindow")
            ELSE IF SelectActive(bookings, session.user_id, isoformat(now)) # <<>>
                 THEN Answered("ActiveBookingExists")
            ELSE [pc |-> "seat", user_id |-> session.user_id, seat_id |-> seat_id,
                  start_dt |-> parse_dt(w[1]), end_dt |-> parse_dt(w[2]),
                  row |-> 0, result |-> "none"]]
    /\ UNCHANGED <<bookings, seats, now, call>>

\* Lines 334-336: SELECT of the seat.
BookCheckSeat(p) ==
    /\ reqs[p].pc = "seat"
    /\ reqs' = [reqs EXCEPT ![p] =
            IF SeatRejected(seats, reqs[p].seat_id) THEN Answered("SeatUnavailable")
            ELSE [reqs[p] EXCEPT !.pc = "conflict"]]
    /\ UNCHANGED <<bookings, seats, now, call>>

\* Lines 339-344: SELECT of the seat's bookings and the overlap scan.
BookCheckConflict(p) ==
    /\ reqs[p].pc = "conflict"
    /\ reqs' = [reqs EXCEPT ![p] =
            IF ConflictScan(SelectSeatBookings(bookings, reqs[p].seat_id),
                            reqs[p].start_dt, reqs[p].end_dt)
            THEN Answered("SeatConflict")
            ELSE [reqs[p] EXCEPT !.pc = "insert"]]
    /\ UNCHANGED <<bookings, seats, now, call>>

\* Lines 346-353: uuid4, INSERT, commit, answer.
BookInsert(p) ==
    /\ reqs[p].pc = "insert"
    /\ Len(bookings) < MaxBookings
    /\ bookings' = InsertBooking(bookings, reqs[p].user_id, reqs[p].seat_id,
                                 reqs[p].start_dt, reqs[p].end_dt, uuid4(bookings))
    /\ reqs' = [reqs EXCEPT ![p] = [reqs[p] EXCEPT !.pc = "done", !.result = "ok"]]
    /\ UNCHANGED <<seats, now, call>>

\* The answer has been sent; the thread takes the next request.
BookReturn(p) ==
    /\ reqs[p].pc = "done"
    /\ reqs' = [reqs EXCEPT ![p] = Idle]
    /\ UNCHANGED <<bookings, seats, now, call>>

ConcNext ==
    \E p \in Threads :
        \/ BookBegin(p)
        \/ BookCheckSeat(p)
        \/ BookCheckConflict(p)
        \/ BookInsert(p)
        \/ BookReturn(p)

\* The handlers as the threaded server runs them.
ConcSpec == Init /\ [][ConcNext]_vars

\* ------------------------------------------- api_book while the admin sets seats
\* The thread that serves the booking while another serves the admin's POST.
BookThread == 1

\* admin_room is one UPDATE and its commit; api_book runs statement by
\* statement on the other thread.
AdminNext ==
    \/ SetSeatState
    \/ BookBegin(BookThread)
    \/ BookCheckSeat(BookThread)
    \/ BookCheckConflict(BookThread)
    \/ BookInsert(BookThread)
    \/ BookReturn(BookThread)

AdminSpec == Init /\ [][AdminNext]_vars

\* ----------------------------------------------------- scan, statement by statement
\* The tokens a scan request may carry: those of the rows and one of no row.
RequestTokens == 1 .. MaxBookings + 1

\* Lines 395-407: SELECT of the row by token, datetime.now(), the window check
\* and the status check, all on the row as it was read.
ScanFetch(p) ==
    /\ reqs[p].pc = "idle"
    /\ \E token \in RequestTokens :
        LET rows == SelectByToken(bookings, token)
        IN  reqs' = [reqs EXCEPT ![p] =
                IF rows = <<>> THEN Answered("InvalidToken")
                ELSE LET b == Head(rows)
                     IN  IF ~InWindow(fromisoformat(b.start_dt),
                                      fromisoformat(b.end_dt), now)
                         THEN Answered("OutsideWindow")
                         ELSE IF b.status = "using" THEN Answered("AlreadyCheckedIn")
                         ELSE [Idle EXCEPT !.pc = "update", !.row = b.id,
                                           !.seat_id = b.seat_id]]
    /\ UNCHANGED <<bookings, seats, now, call>>

\* Lines 408-410: UPDATE of the row read earlier, commit, answer.
ScanUpdate(p) ==
    /\ reqs[p].pc = "update"
    /\ bookings' = UpdateStatus(bookings, reqs[p].row, "using")
    /\ reqs' = [reqs EXCEPT ![p] = [reqs[p] EXCEPT !.pc = "done", !.result = "ok"]]
    /\ UNCHANGED <<seats, now, call>>

\* The answer has been sent; the thread takes the next request.
ScanReturn(p) ==
    /\ reqs[p].pc = "done"
    /\ reqs' = [reqs EXCEPT ![p] = Idle]
    /\ UNCHANGED <<bookings, seats, now, call>>

ScanNext ==
    \/ Tick
    \/ CreateBooking
    \/ \E p \in Threads : ScanFetch(p) \/ ScanUpdate(p) \/ ScanReturn(p)

\* Bookings are made one at a time and scanned by the threads of the server.
ScanSpec == Init /\ [][ScanNext]_vars

\* ------------------------------------------------ booking and check-in only
\* The handlers run one at a time and no booking is ever cancelled.
NoCancelNext == Tick \/ CreateBooking \/ CheckIn

NoCancelSpec == Init /\ [][NoCancelNext]_vars

\* ------------------------------------------------------- overlaps on its own
\* overlaps is a pure function: it is called on every four datetimes of the
\* modelled day and returns.
OverlapsInit ==
    /\ bookings = <<>>
    /\ seats = [s \in SeatIds |-> [is_open |-> 1, note |-> "NULL"]]
    /\ now = 0
    /\ reqs = NoRequests
    /\ call \in [pc : {"called"}, start1 : Times, end1 : Times,
                  start2 : Times, end2 : Times, out : {FALSE}]

OverlapsReturn ==
    /\ call.pc = "called"
    /\ call' = [call EXCEPT !.pc = "returned",
                            !.out = overlaps(call.start1, call.end1,
                                             call.start2, call.end2)]
    /\ UNCHANGED <<bookings, seats, now, reqs>>

OverlapsSpec == OverlapsInit /\ [][OverlapsReturn]_vars

\* ------------------------------------------------------------- properties
\* The properties read the store in minutes since midnight, straight from the
\* stored <<hour, minute>> text, and the clock in minutes.
StartMinute(b) == b.start_dt[1] * 60 + b.start_dt[2]

EndMinute(b) == b.end_dt[1] * 60 + b.end_dt[2]

ClockMinute(t) == t * 15

StringMinute(time_str) == time_str[1] * 60 + time_str[2]

\* Two rows whose half-open intervals [start, end) share a minute.
ShareTime(a, b) ==
    \E m \in 0 .. ClockMinute(MaxTime) :
        /\ StartMinute(a) <= m /\ m < EndMinute(a)
        /\ StartMinute(b) <= m /\ m < EndMinute(b)

\* A row shares a minute with the half-open window [from, to), in minutes.
SharesWindow(b, from, to) ==
    \E m \in 0 .. ClockMinute(MaxTime) :
        /\ StartMinute(b) <= m /\ m < EndMinute(b)
        /\ from <= m /\ m < to

Live(bks) == {i \in DOMAIN bks : bks[i].status # "cancelled"}

\* The rows of a user that are neither cancelled nor over at clock t.
ActiveOf(bks, user_id, t) ==
    {i \in Live(bks) : bks[i].user_id = user_id /\ EndMinute(bks[i]) > ClockMinute(t)}

Students == {x \in Sessions : ~x.is_admin}

\* C1: two api_book requests served at the same time, by different users, for
\* the same seat and overlapping windows, never both end with ok.
C1_ConcurrentSameSeatNotBothBooked ==
    \A p \in Threads, q \in Threads :
        ~ /\ p # q
          /\ reqs[p].pc = "done" /\ reqs[p].result = "ok"
          /\ reqs[q].pc = "done" /\ reqs[q].result = "ok"
          /\ reqs[p].user_id # reqs[q].user_id
          /\ reqs[p].seat_id = reqs[q].seat_id
          /\ reqs[p].start_dt < reqs[q].end_dt
          /\ reqs[q].start_dt < reqs[p].end_dt

\* C4: two api_book requests of the same user served at the same time, for
\* different seats or for windows that do not overlap, never both end with ok.
C4_ConcurrentSameUserNotBothBooked ==
    \A p \in Threads, q \in Threads :
        ~ /\ p # q
          /\ reqs[p].pc = "done" /\ reqs[p].result = "ok"
          /\ reqs[q].pc = "done" /\ reqs[q].result = "ok"
          /\ reqs[p].user_id = reqs[q].user_id
          /\ \/ reqs[p].seat_id # reqs[q].seat_id
             \/ reqs[p].end_dt <= reqs[q].start_dt
             \/ reqs[q].end_dt <= reqs[p].start_dt

\* C2: with the handlers run one at a time, the bookings of a seat that are
\* not cancelled never share a minute of their half-open intervals.
C2_SeatBookingsDisjoint ==
    \A i \in Live(bookings), j \in Live(bookings) :
        (i # j /\ bookings[i].seat_id = bookings[j].seat_id)
            => ~ShareTime(bookings[i], bookings[j])

\* C3: with the handlers run one at a time, a user owns at most one booking
\* that is not cancelled and ends after the current time.
C3_OneActiveBookingPerUser ==
    \A u \in Users : Cardinality(ActiveOf(bookings, u.id, now)) <= 1

\* C5: a check-in never changes the status of a booking that is using or
\* cancelled (so it never succeeds on one).
C5_UsingAndCancelledAreTerminal ==
    [][CheckIn =>
          \A i \in DOMAIN bookings :
              bookings[i].status \in {"using", "cancelled"}
                  => bookings'[i].status = bookings[i].status]_vars

\* Tokens and booking ids a request may carry: those of the rows there may be
\* and one that matches no row.
RequestIds == 1 .. MaxBookings + 1

\* Every row but row i is the same in both tables, and row i differs at most
\* in its status.
OnlyStatusOf(before, after, i) ==
    /\ DOMAIN after = DOMAIN before
    /\ \A j \in DOMAIN before :
        IF j = i THEN after[j] = [before[j] EXCEPT !.status = after[j].status]
        ELSE after[j] = before[j]

\* C6: scan answers InvalidToken for a token no booking has; otherwise
\* OutsideWindow unless start <= now <= end, both ends included; otherwise
\* AlreadyCheckedIn for a booking that is using; otherwise it sets the status
\* to using (also of a cancelled booking) and answers with the booking's seat.
C6_CheckInOutcome ==
    \A token \in RequestIds, t \in 0 .. MaxTime + 1 :
        LET r == scan(bookings, token, t)
            holders == {i \in DOMAIN bookings : bookings[i].token = token}
        IN  IF holders = {}
            THEN r.result = "InvalidToken" /\ r.bookings = bookings
            ELSE \A i \in holders :
                LET b == bookings[i]
                IN  IF ClockMinute(t) < StartMinute(b) \/ ClockMinute(t) > EndMinute(b)
                    THEN r.result = "OutsideWindow" /\ r.bookings = bookings
                    ELSE IF b.status = "using"
                    THEN r.result = "AlreadyCheckedIn" /\ r.bookings = bookings
                    ELSE /\ r.result = "ok"
                         /\ r.seat_id = b.seat_id
                         /\ r.bookings[i].status = "using"
                         /\ OnlyStatusOf(bookings, r.bookings, i)

\* C6 happens: a booking was checked in, its end has passed, and a check-in
\* with its token is now answered OutsideWindow, not AlreadyCheckedIn.
C6_Witness ==
    \E i \in DOMAIN bookings :
        /\ bookings[i].status = "using"
        /\ ClockMinute(now) > EndMinute(bookings[i])
        /\ scan(bookings, bookings[i].token, now).result = "OutsideWindow"

\* The requests C7 is about: a student without an active booking asks for an
\* existing open seat and a window on the grid with start < end.
GridWindows ==
    {w \in RequestWindows :
        /\ Len(w[1]) = 2 /\ Len(w[2]) = 2
        /\ w[1][2] \in {0, 30} /\ w[2][2] \in {0, 30}
        /\ StringMinute(w[1]) < StringMinute(w[2])}

\* C7: such a request is answered SeatConflict exactly when a booking of the
\* seat that is not cancelled shares a minute with the window, and ok
\* otherwise (so a window that only touches a booking, or only meets
\* cancelled ones, is booked).
C7_ConflictIffOverlap ==
    \A x \in Students, seat_id \in SeatIds, w \in GridWindows :
        (ActiveOf(bookings, x.user_id, now) = {} /\ seats[seat_id].is_open = 1)
            => LET r == api_book(bookings, seats, x, seat_id, w[1], w[2], now)
                   clash == \E i \in Live(bookings) :
                                /\ bookings[i].seat_id = seat_id
                                /\ SharesWindow(bookings[i], StringMinute(w[1]),
                                                StringMinute(w[2]))
               IN  r.result = (IF clash THEN "SeatConflict" ELSE "ok")

\* C7 happens: a seat holds two bookings that were never cancelled, the later
\* row starting at the minute the earlier one ends.
C7_Witness ==
    \E i \in DOMAIN bookings, j \in DOMAIN bookings :
        /\ i < j
        /\ bookings[i].seat_id = bookings[j].seat_id
        /\ bookings[i].status = "booked" /\ bookings[j].status = "booked"
        /\ StartMinute(bookings[j]) = EndMinute(bookings[i])

\* What a request's window is refused for, read from the strings.
BadWindow(w) ==
    \/ Len(w[1]) # 2 \/ Len(w[2]) # 2
    \/ w[1][2] \notin {0, 30} \/ w[2][2] \notin {0, 30}
    \/ StringMinute(w[1]) >= StringMinute(w[2])

\* C8: api_book answers with the first refusal that applies, in the order
\* AdminCannotBook, InvalidWindow, ActiveBookingExists (a booking on any seat
\* that is not cancelled and not over), SeatUnavailable (no such seat, or
\* closed), SeatConflict.
C8_RejectionOrder ==
    \A x \in Sessions, seat_id \in RequestSeatIds, w \in RequestWindows :
        LET r == api_book(bookings, seats, x, seat_id, w[1], w[2], now)
        IN  IF x.is_admin THEN r.result = "AdminCannotBook"
            ELSE IF BadWindow(w) THEN r.result = "InvalidWindow"
            ELSE IF ActiveOf(bookings, x.user_id, now) # {}
                 THEN r.result = "ActiveBookingExists"
            ELSE IF seat_id \notin SeatIds \/ seats[seat_id].is_open = 0
                 THEN r.result = "SeatUnavailable"
            ELSE r.result \in {"SeatConflict", "ok"}

\* C8 happens: a student holds an active booking, a seat is closed, and the
\* student's request for the closed seat is answered ActiveBookingExists.
C8_Witness ==
    \E x \in Students, seat_id \in SeatIds, w \in GridWindows :
        /\ seats[seat_id].is_open = 0
        /\ ActiveOf(bookings, x.user_id, now) # {}
        /\ \E i \in ActiveOf(bookings, x.user_id, now) : bookings[i].seat_id # seat_id
        /\ api_book(bookings, seats, x, seat_id, w[1], w[2], now).result
               = "ActiveBookingExists"

\* C9: cancel by the owner leaves the booking cancelled whatever its status
\* was, and a second cancel right after answers ok and changes nothing.
C9_CancelIdempotent ==
    \A x \in Sessions, bid \in DOMAIN bookings :
        bookings[bid].user_id = x.user_id
            => LET once == cancel(bookings, x, bid)
                   twice == cancel(once.bookings, x, bid)
               IN  /\ once.result = "ok"
                   /\ once.bookings[bid].status = "cancelled"
                   /\ OnlyStatusOf(bookings, once.bookings, bid)
                   /\ twice.result = "ok"
                   /\ twice.bookings = once.bookings

\* C9 happens: a booking has been cancelled and another that was checked in
\* is about to be.
C9_Witness ==
    \E i \in DOMAIN bookings, j \in DOMAIN bookings :
        /\ bookings[i].status = "cancelled"
        /\ bookings[j].status = "using"
        /\ cancel(bookings, login([id |-> bookings[i].user_id, is_admin |-> 0]), i).bookings
               = bookings

\* C10: cancel answers NotOwner and changes no booking when the booking does
\* not exist or belongs to another user.
C10_CancelOnlyByOwner ==
    \A x \in Sessions, bid \in RequestIds :
        (bid \notin DOMAIN bookings \/ bookings[bid].user_id # x.user_id)
            => LET r == cancel(bookings, x, bid)
               IN  r.result = "NotOwner" /\ r.bookings = bookings

\* C10 happens: a booking that is not cancelled exists and the other student's
\* cancel of it is answered NotOwner.
C10_Witness ==
    \E i \in Live(bookings), x \in Students :
        /\ x.user_id # bookings[i].user_id
        /\ cancel(bookings, x, i).result = "NotOwner"

\* The call is overlaps(booking, window): the first interval is a booking
\* [t1, t3) and the second is the window [t1, t2) or [t2, t3), t1 <= t2 <= t3.
CoveredWindowCall ==
    /\ call.pc = "returned"
    /\ call.start1 < call.end1
    /\ \/ call.start2 = call.start1 /\ call.start1 <= call.end2 /\ call.end2 <= call.end1
       \/ call.end2 = call.end1 /\ call.start1 <= call.start2 /\ call.start2 <= call.end1

\* C11 as claimed: for t1 <= t2 <= t3 and a booking over [t1, t3), overlaps is
\* true of the booking and the window [t1, t2), and of the booking and [t2, t3).
C11_CoveredWindowsOverlap == CoveredWindowCall => call.out = TRUE

\* C11 as amended: the same for the windows that are not empty (t1 < t2 for
\* [t1, t2), t2 < t3 for [t2, t3)); overlaps is false of an empty window.
C11_NonEmptyCoveredWindowsOverlap ==
    CoveredWindowCall => (call.out = (call.start2 < call.end2))

\* C11 happens: overlaps has returned true for a booking [t1, t3) and the
\* window [t2, t3) with t1 < t2 < t3.
C11_Witness ==
    /\ CoveredWindowCall
    /\ call.end2 = call.end1
    /\ call.start1 < call.start2 /\ call.start2 < call.end2
    /\ call.out = TRUE

\* C12: for two intervals that are not empty, overlaps is true exactly when
\* the half-open intervals share an instant; intervals that only touch
\* (the end of one is the start of the other) do not overlap.
C12_OverlapsIffShareInstant ==
    (call.pc = "returned" /\ call.start1 < call.end1 /\ call.start2 < call.end2)
        => /\ call.out = (\E t \in Times : /\ call.start1 <= t /\ t < call.end1
                                          /\ call.start2 <= t /\ t < call.end2)
           /\ (call.end1 = call.start2 \/ call.end2 = call.start1) => call.out = FALSE

\* C12 happens: overlaps has returned false for two non-empty intervals of
\* which the first ends where the second starts.
C12_Witness ==
    /\ call.pc = "returned"
    /\ call.start1 < call.end1 /\ call.start2 < call.end2
    /\ call.end1 = call.start2
    /\ call.out = FALSE

\* The windows a seat_status request may carry with start before end, on the
\* grid or off it, as pairs of datetimes.
QueryWindows == {w \in Times \X Times : w[1] < w[2]}

\* The bookings of the seat that are not cancelled and share a minute with
\* the window.
Hits(seat_id, w) ==
    {i \in Live(bookings) :
        /\ bookings[i].seat_id = seat_id
        /\ SharesWindow(bookings[i], ClockMinute(w[1]), ClockMinute(w[2]))}

\* What booking i alone makes of a seat at the current time.
StateBy(i) ==
    IF \/ bookings[i].status = "using"
       \/ (StartMinute(bookings[i]) <= ClockMinute(now)
             /\ ClockMinute(now) < EndMinute(bookings[i]))
    THEN "using" ELSE "booked"

\* C13: seat_status gives closed for a closed seat whatever its bookings;
\* otherwise the first booking in id order that is not cancelled and overlaps
\* the window decides between using and booked, later ones are ignored; and
\* available exactly when the seat is open and no such booking overlaps.
C13_ClassifySeatFirstMatch ==
    \A seat_id \in SeatIds, w \in QueryWindows :
        LET answer == seat_status(bookings, seats, SeatRoom[seat_id],
                                  isoformat(w[1]), isoformat(w[2]), now)
            r == answer.out[seat_id]
            hits == Hits(seat_id, w)
        IN  /\ answer.error = "none"
            /\ IF seats[seat_id].is_open = 0 THEN r.state = "closed"
               ELSE IF hits = {} THEN r.state = "available"
               ELSE LET first == CHOOSE i \in hits : \A j \in hits : i <= j
                    IN  r.state = StateBy(first) /\ r.occupying = first

\* C13 happens: an open seat has two bookings that overlap the window, the
\* later one would make it using, and seat_status says booked by the first.
C13_Witness ==
    \E seat_id \in SeatIds, w \in QueryWindows :
        /\ seats[seat_id].is_open = 1
        /\ \E i \in Hits(seat_id, w), j \in Hits(seat_id, w) :
              /\ i < j
              /\ StateBy(i) = "booked" /\ StateBy(j) = "using"
              /\ ClassifySeat(bookings, seats, seat_id, w[1], w[2], now)
                     = [state |-> "booked", occupying |-> i]

\* The session of the owner of booking i.
OwnerOf(bks, i) == login([id |-> bks[i].user_id, is_admin |-> 0])

\* Booking i is booked and the time is within its window, ends included.
CanCheckIn(bks, i, t) ==
    /\ bks[i].status = "booked"
    /\ StartMinute(bks[i]) <= ClockMinute(t)
    /\ ClockMinute(t) <= EndMinute(bks[i])

\* The bookings that are not cancelled and sit on a closed seat.
LiveOnClosedSeat(bks, sts) ==
    {i \in Live(bks) : bks[i].seat_id \in DOMAIN sts /\ sts[bks[i].seat_id].is_open = 0}

\* C14: admin_room writes the open flag and the note of the one seat it names
\* and nothing else: no booking and no other seat changes, and a booking on
\* a seat that is now closed is still not cancelled, its owner can cancel it
\* and it can be checked in within its window.
C14_SetSeatStateFrame ==
    /\ [](\A x \in Sessions, seat_id \in RequestSeatIds,
             is_open_field \in {"1", "0"}, note \in Notes :
               LET r == admin_room(seats, x, seat_id, is_open_field, note)
               IN  /\ DOMAIN r.seats = DOMAIN seats
                   /\ \A t \in SeatIds \ {seat_id} : r.seats[t] = seats[t]
                   /\ ~x.is_admin => r.seats = seats
                   /\ (x.is_admin /\ seat_id \in SeatIds) =>
                          /\ r.seats[seat_id].is_open \in {0, 1}
                          /\ r.seats[seat_id].is_open = 1 <=> is_open_field = "1"
                          /\ r.seats[seat_id].note = note
                   /\ \A i \in LiveOnClosedSeat(bookings, r.seats) :
                         /\ cancel(bookings, OwnerOf(bookings, i), i).result = "ok"
                         /\ CanCheckIn(bookings, i, now) =>
                                scan(bookings, bookings[i].token, now).result = "ok")
    /\ [][seats' # seats =>
             /\ bookings' = bookings
             /\ \E s \in SeatIds : \A t \in SeatIds \ {s} : seats'[t] = seats[t]
             /\ LiveOnClosedSeat(bookings', seats') \subseteq Live(bookings)
         ]_vars

\* C14 happens: a seat is closed while a booked booking made on it earlier is
\* within its window; the booking can be checked in and cancelled.
C14_Witness ==
    \E i \in LiveOnClosedSeat(bookings, seats) :
        /\ CanCheckIn(bookings, i, now)
        /\ scan(bookings, bookings[i].token, now).result = "ok"
        /\ cancel(bookings, OwnerOf(bookings, i), i).result = "ok"

\* C15: a successful api_book appends exactly one row, of the caller, on the
\* requested seat and window, booked, with a token no earlier row holds, and
\* leaves the earlier rows and the seats as they were; the tokens of the rows
\* are pairwise distinct and no step changes the token of a row.
C15_InsertFrameAndTokens ==
    /\ []( /\ \A x \in Sessions, seat_id \in RequestSeatIds, w \in RequestWindows :
                LET r == api_book(bookings, seats, x, seat_id, w[1], w[2], now)
                    n == Len(bookings)
                IN  r.result = "ok" =>
                        /\ Len(r.bookings) = n + 1
                        /\ \A i \in 1 .. n : r.bookings[i] = bookings[i]
                        /\ r.bookings[n + 1].user_id = x.user_id
                        /\ r.bookings[n + 1].seat_id = seat_id
                        /\ StartMinute(r.bookings[n + 1]) = StringMinute(w[1])
                        /\ EndMinute(r.bookings[n + 1]) = StringMinute(w[2])
                        /\ r.bookings[n + 1].status = "booked"
                        /\ r.bookings[n + 1].token = r.token
                        /\ \A i \in 1 .. n : bookings[i].token # r.token
           /\ \A i \in DOMAIN bookings, j \in DOMAIN bookings :
                i # j => bookings[i].token # bookings[j].token)
    /\ [][ /\ \A i \in DOMAIN bookings :
                /\ i \in DOMAIN bookings'
                /\ bookings'[i].token = bookings[i].token
           /\ Len(bookings') > Len(bookings) =>
                /\ Len(bookings') = Len(bookings) + 1
                /\ \A i \in DOMAIN bookings : bookings'[i] = bookings[i]
                /\ seats' = seats
         ]_vars

\* C15 happens: the store holds a booking and an api_book succeeds, so the
\* new token is compared with one that exists.
C15_Witness ==
    /\ Len(bookings) >= 1
    /\ \E x \in Students, seat_id \in SeatIds, w \in RequestWindows :
          LET r == api_book(bookings, seats, x, seat_id, w[1], w[2], now)
          IN  /\ r.result = "ok"
              /\ r.bookings[Len(bookings) + 1].token # bookings[1].token

\* A stored row has start before end and both on a 30-minute boundary.
WellFormedInterval(b) ==
    /\ StartMinute(b) < EndMinute(b)
    /\ b.start_dt[2] \in {0, 30}
    /\ b.end_dt[2] \in {0, 30}

\* C16: every stored booking has start < end with both on the 30-minute
\* grid; api_book answers a student InvalidWindow for a window with
\* start >= end or a boundary off the grid and stores nothing; no step changes
\* the interval of a stored booking.
C16_IntervalsWellFormed ==
    /\ []( /\ \A i \in DOMAIN bookings : WellFormedInterval(bookings[i])
           /\ \A x \in Students, seat_id \in RequestSeatIds, w \in RequestWindows :
                LET r == api_book(bookings, seats, x, seat_id, w[1], w[2], now)
                IN  /\ BadWindow(w) => r.result = "InvalidWindow" /\ r.bookings = bookings
                    /\ r.result = "ok" => WellFormedInterval(r.bookings[Len(r.bookings)]))
    /\ [][\A i \in DOMAIN bookings :
              /\ bookings'[i].start_dt = bookings[i].start_dt
              /\ bookings'[i].end_dt = bookings[i].end_dt
         ]_vars

\* C16 happens: a booking is stored, and in the same state a student's
\* request with the end off the grid and one with start = end are refused
\* with InvalidWindow.
C16_Witness ==
    /\ Len(bookings) >= 1
    /\ WellFormedInterval(bookings[1])
    /\ \E x \in Students, seat_id \in SeatIds :
          /\ api_book(bookings, seats, x, seat_id, isoformat(0), isoformat(1), now).result
                = "InvalidWindow"
          /\ api_book(bookings, seats, x, seat_id, isoformat(2), isoformat(2), now).result
                = "InvalidWindow"

\* C17: two scan requests served at the same time for the same booking never
\* both end with ok (one of them is answered AlreadyCheckedIn).
C17_ConcurrentCheckInOnlyOnce ==
    \A p \in Threads, q \in Threads :
        ~ /\ p # q
          /\ reqs[p].pc = "done" /\ reqs[p].result = "ok"
          /\ reqs[q].pc = "done" /\ reqs[q].result = "ok"
          /\ reqs[p].row # 0
          /\ reqs[p].row = reqs[q].row

\* C18: no step inserts a booking on a seat that is closed in the store at
\* that moment.
C18_NoInsertOnClosedSeat ==
    [][Len(bookings') > Len(bookings) =>
          seats[bookings'[Len(bookings')].seat_id].is_open = 1]_vars

BookRefusals ==
    {"AdminCannotBook", "InvalidWindow", "ActiveBookingExists", "SeatUnavailable",
     "SeatConflict"}

ScanRefusals == {"InvalidToken", "OutsideWindow", "AlreadyCheckedIn"}

\* C19: a refused request leaves the store as it was: api_book refused for
\* any of its five reasons, cancel refused with NotOwner and scan refused for
\* any of its three reasons return the bookings unchanged, and no step other
\* than the admin's update changes a seat.
C19_RefusalsChangeNothing ==
    /\ []( /\ \A x \in Sessions, seat_id \in RequestSeatIds, w \in RequestWindows :
                LET r == api_book(bookings, seats, x, seat_id, w[1], w[2], now)
                IN  /\ r.result \in BookRefusals \cup {"ok"}
                    /\ r.result \in BookRefusals => r.bookings = bookings
           /\ \A x \in Sessions, bid \in RequestIds :
                LET r == cancel(bookings, x, bid)
                IN  /\ r.result \in {"NotOwner", "ok"}
                    /\ r.result = "NotOwner" => r.bookings = bookings
           /\ \A token \in RequestTokens :
                LET r == scan(bookings, token, now)
                IN  /\ r.result \in ScanRefusals \cup {"ok"}
                    /\ r.result \in ScanRefusals => r.bookings = bookings)
    /\ [][seats' # seats => bookings' = bookings /\ now' = now]_vars

\* C19 happens: in one state a checked-in booking is within its window, its
\* owner's api_book is refused with ActiveBookingExists, the other student's
\* cancel of it with NotOwner and a scan of its token with AlreadyCheckedIn.
C19_Witness ==
    \E i \in Live(bookings), x \in Students, seat_id \in SeatIds, w \in RequestWindows :
        /\ bookings[i].status = "using"
        /\ x.user_id # bookings[i].user_id
        /\ cancel(bookings, x, i).result = "NotOwner"
        /\ scan(bookings, bookings[i].token, now).result = "AlreadyCheckedIn"
        /\ api_book(bookings, seats, OwnerOf(bookings, i), seat_id, w[1], w[2], now).result
              = "ActiveBookingExists"

\* What seat_status says of the seat for the window in the current state.
Classified(seat_id, w) ==
    seat_status(bookings, seats, SeatRoom[seat_id], w[1], w[2], now).out[seat_id].state

\* C20: for every existing seat, every window on the grid with start < end
\* and every student without an active booking, seat_status says available
\* exactly when api_book in the same state answers ok; otherwise api_book
\* answers SeatUnavailable (closed) or SeatConflict (booked, using).
C20_AvailableIffBookable ==
    \A seat_id \in SeatIds, w \in GridWindows, x \in Students :
        ActiveOf(bookings, x.user_id, now) = {} =>
            LET r == api_book(bookings, seats, x, seat_id, w[1], w[2], now)
                state == Classified(seat_id, w)
            IN  /\ state = "available" <=> r.result = "ok"
                /\ state = "closed" <=> r.result = "SeatUnavailable"
                /\ state \in {"booked", "using"} <=> r.result = "SeatConflict"

\* C20 happens: a student without an active booking, an open seat that is
\* available for one window and taken for another, and a closed seat: the
\* three answers of api_book follow seat_status.
C20_Witness ==
    \E x \in Students, seat_id \in SeatIds, other \in SeatIds,
       free \in GridWindows, taken \in GridWindows :
        /\ ActiveOf(bookings, x.user_id, now) = {}
        /\ Classified(seat_id, free) = "available"
        /\ api_book(bookings, seats, x, seat_id, free[1], free[2], now).result = "ok"
        /\ Classified(seat_id, taken) \in {"booked", "using"}
        /\ api_book(bookings, seats, x, seat_id, taken[1], taken[2], now).result
              = "SeatConflict"
        /\ Classified(other, free) = "closed"
        /\ api_book(bookings, seats, x, other, free[1], free[2], now).result
              = "SeatUnavailable"

\* Row i keeps everything but, possibly, its status from one table to the next.
SameBooking(before, after, i) ==
    /\ i \in DOMAIN after
    /\ after[i].id = before[i].id
    /\ after[i].user_id = before[i].user_id
    /\ after[i].seat_id = before[i].seat_id
    /\ after[i].start_dt = before[i].start_dt
    /\ after[i].end_dt = before[i].end_dt

\* C21: no step removes a booking or changes its user, seat, start or end; a
\* status that changes becomes using, by a scan that answers ok, or
\* cancelled, by a cancel that answers ok, and never booked again.
C21_BookingsPersistStatusForward ==
    [][\A i \in DOMAIN bookings :
          /\ SameBooking(bookings, bookings', i)
          /\ bookings'[i].status = "booked" => bookings[i].status = "booked"
          /\ bookings'[i].status # bookings[i].status =>
                \/ /\ bookings'[i].status = "using"
                   /\ scan(bookings, bookings[i].token, now).result = "ok"
                   /\ bookings' = scan(bookings, bookings[i].token, now).bookings
                \/ /\ bookings'[i].status = "cancelled"
                   /\ cancel(bookings, OwnerOf(bookings, i), i).result = "ok"
                   /\ bookings' = cancel(bookings, OwnerOf(bookings, i), i).bookings
      ]_vars

\* C21 happens: one booking is using and another cancelled; a cancel of the
\* first and a scan of the second both succeed and neither row is removed
\* or booked again.
C21_Witness ==
    \E i \in DOMAIN bookings, j \in DOMAIN bookings :
        /\ bookings[i].status = "using"
        /\ bookings[j].status = "cancelled"
        /\ LET c == cancel(bookings, OwnerOf(bookings, i), i)
               k == scan(bookings, bookings[j].token, now)
           IN  /\ c.result = "ok" /\ c.bookings[i].status = "cancelled"
               /\ k.result = "ok" /\ k.bookings[j].status = "using"
               /\ SameBooking(bookings, c.bookings, i)
               /\ SameBooking(bookings, k.bookings, j)

\* Booking i passes the window test of the check-in at clock t, ends included.
PassesWindowTest(bks, i, t) ==
    StartMinute(bks[i]) <= ClockMinute(t) /\ ClockMinute(t) <= EndMinute(bks[i])

\* C22: with bookings and check-ins only, at most one booking of a seat
\* passes the window test start <= now <= end at the current time.
C22_OneCheckInWindowPerSeat ==
    \A i \in DOMAIN bookings, j \in DOMAIN bookings :
        (i # j /\ bookings[i].seat_id = bookings[j].seat_id)
            => ~(PassesWindowTest(bookings, i, now) /\ PassesWindowTest(bookings, j, now))

\* C22, its consequence alone: two bookings of a seat are never both checked
\* in, one scan after the other, at the same time.
C22_NotBothCheckedIn ==
    \A i \in DOMAIN bookings, j \in DOMAIN bookings :
        (i # j /\ bookings[i].seat_id = bookings[j].seat_id)
            => LET first == scan(bookings, bookings[i].token, now)
               IN  ~ /\ first.result = "ok"
                     /\ scan(first.bookings, bookings[j].token, now).result = "ok"

====
